---- MODULE Spec2Model ----
(***************************************************************************)
(* TrackMyLife: the weekly habit tracker page (TrackMyLifePage) of         *)
(* src/src/components/ui/countdown-timer.tsx, with its localStorage        *)
(* persistence, its week rollover and its check-in mutations.              *)
(*                                                                         *)
(* The timeline tracker (LifeTimeline) of the same file is modelled by its *)
(* tracks, their storage and commitCheckIn.                                *)
(*                                                                         *)
(* Time is a clock of ticks, DAY_MS ticks to the day; an ISO date string   *)
(* "YYYY-MM-DD" is modelled by the number of its UTC day.  Step values    *)
(* and blocks are counted in hundredths.                                   *)
(***************************************************************************)
EXTENDS Integers, Sequences, FiniteSets, TLC

VARIABLES
    state,            \* useState<TrackerState>: the in-memory aggregate
    storage,          \* localStorage[STORAGE_KEY]: [kind, doc]
    now,              \* the wall clock, in ticks
    diff,             \* diffInDays(today, weekStart) as of the last render
    showCheckin,      \* useState(false)
    showWeekSummary,  \* useState(false)
    storageOK,        \* FALSE while localStorage.setItem throws
    app,              \* "running", or "crashed" once a render or effect threw
    lastOp,           \* the step that led here: the handler and its arguments
    tracks,           \* LifeTimeline's useState<Track[]>
    tracksStorage     \* localStorage[STORE_KEY] of LifeTimeline: [kind, doc]

vars == <<state, storage, now, diff, showCheckin, showWeekSummary, storageOK, app, lastOp,
          tracks, tracksStorage>>

(***************************************************************************)
(* Bounds of the model                                                     *)
(***************************************************************************)
ActiveDays == 1      \* days of the first week left when the page is opened
ExtraDays == 0       \* days the clock runs on after the first week's end day
NumGoals == 2        \* how many of the seed goals the model keeps
MaxTasks == 2        \* how many tasks of each seed goal the model keeps
MaxMarks == 2        \* completed-task entries plus non-empty notes a week may hold
MaxHistory == 1      \* week summaries kept before rollover stops

NUM_DAYS == 7
DAY_MS == 2          \* one day, in clock ticks (the model's tick is half a day)

StartDay == NUM_DAYS - ActiveDays   \* the day the page is opened
MaxDay == NUM_DAYS + ExtraDays      \* the clock stops at the end of this day

Null == "<null>"     \* the JS value null where a string may stand

Max(a, b) == IF a >= b THEN a ELSE b
Min(a, b) == IF a <= b THEN a ELSE b

(***************************************************************************)
(* Time helpers                                                            *)
(***************************************************************************)
dayIndex(date) == date \div DAY_MS

\* new Date().toISOString().slice(0, 10): the UTC day of the clock
todayISO(t) == t \div DAY_MS

\* new Date("YYYY-MM-DD"): UTC midnight of that day
DateOf(iso) == iso * DAY_MS

diffInDays(a, b) == dayIndex(a) - dayIndex(b)

(***************************************************************************)
(* Seed data                                                               *)
(***************************************************************************)
emptyDay == [completedTasks |-> <<>>, note |-> ""]

emptyDays == [i \in 1..NUM_DAYS |-> emptyDay]

Task(id, label) == [id |-> id, label |-> label]

Goal(id, label, section, tasks) ==
    [id |-> id, label |-> label, section |-> section,
     tasks |-> SubSeq(tasks, 1, Min(MaxTasks, Len(tasks))), days |-> emptyDays]

allSeedGoals ==
    << Goal("intro-llm", "Intro to LLM", "Studies",
            << Task("llm-notes", "Review lecture notes"),
               Task("llm-ex", "Solve 2 practice questions"),
               Task("llm-reading", "Read 5 pages"),
               Task("llm-video", "Watch 10 min recap") >>),
       Goal("sdms", "SDMS", "Studies",
            << Task("sdms-reading", "Read 3 pages of script"),
               Task("sdms-quiz", "Do 5 quiz questions"),
               Task("sdms-notes", "Organise notes") >>),
       Goal("pgm", "PGM", "Studies",
            << Task("pgm-slides", "Scan slides 10 min"),
               Task("pgm-problem", "Attempt 1 problem"),
               Task("pgm-solution", "Check 1 solution") >>),
       Goal("crypto", "Intro to Crypto", "Studies",
            << Task("crypto-topic", "Read 1 topic"),
               Task("crypto-summary", "Write 3 bullet summary") >>) >>

seedGoals == SubSeq(allSeedGoals, 1, Min(NumGoals, Len(allSeedGoals)))

defaultState(t) ==
    [weekStartISO |-> todayISO(t), goals |-> seedGoals, history |-> <<>>]

(***************************************************************************)
(* JSON text, as the tree JSON.stringify writes and JSON.parse reads       *)
(***************************************************************************)
JNull == [j |-> "null"]
JStr(s) == [j |-> "str", v |-> s]
JNum(n) == [j |-> "num", v |-> n]
JArr(seq) == [j |-> "arr", v |-> seq]
JObj(rec) == [j |-> "obj", v |-> rec]

\* a string | null value
JStrOrNull(s) == IF s = Null THEN JNull ELSE JStr(s)

StringifyTask(t) == JObj([id |-> JStr(t.id), label |-> JStr(t.label)])

\* StringifyDay that takes an empty note for no note (note || undefined)
StringifyDayOmitsEmptyNote(d) ==
    LET keys == IF "note" \in DOMAIN d /\ d.note = "" THEN DOMAIN d \ {"note"}
                ELSE DOMAIN d
    IN  JObj([k \in keys |->
                IF k = "completedTasks"
                THEN JArr([i \in DOMAIN d.completedTasks |-> JStr(d.completedTasks[i])])
                ELSE JStr(d[k])])

\* a key whose value is undefined (a day without note) is not written
StringifyDay(d) ==
    JObj([k \in DOMAIN d |->
            IF k = "completedTasks"
            THEN JArr([i \in DOMAIN d.completedTasks |-> JStr(d.completedTasks[i])])
            ELSE JStr(d[k])])

StringifyGoal(g) ==
    JObj([id |-> JStr(g.id), label |-> JStr(g.label), section |-> JStr(g.section),
          tasks |-> JArr([i \in DOMAIN g.tasks |-> StringifyTask(g.tasks[i])]),
          days |-> JArr([i \in DOMAIN g.days |-> StringifyDay(g.days[i])])])

StringifySummary(w) ==
    JObj([id |-> JStr(w.id), startISO |-> JStr(w.startISO), endISO |-> JStr(w.endISO),
          totalCompletedTasks |-> JNum(w.totalCompletedTasks),
          totalPossibleTasks |-> JNum(w.totalPossibleTasks),
          bestGoalId |-> JStrOrNull(w.bestGoalId),
          bestGoalLabel |-> JStrOrNull(w.bestGoalLabel),
          bestGoalCompletion |-> JNum(w.bestGoalCompletion)])

\* JSON.stringify(state)
Stringify(s) ==
    JObj([weekStartISO |-> JStr(s.weekStartISO),
          goals |-> JArr([i \in DOMAIN s.goals |-> StringifyGoal(s.goals[i])]),
          history |-> JArr([i \in DOMAIN s.history |-> StringifySummary(s.history[i])])])

\* JSON.parse(raw), for a parseable raw
RECURSIVE Parse(_)
Parse(doc) ==
    CASE doc.j = "null" -> Null
      [] doc.j \in {"str", "num"} -> doc.v
      [] doc.j = "arr" -> [i \in DOMAIN doc.v |-> Parse(doc.v[i])]
      [] doc.j = "obj" -> [k \in DOMAIN doc.v |-> Parse(doc.v[k])]

(***************************************************************************)
(* Storage helpers                                                         *)
(***************************************************************************)
\* localStorage.getItem(STORAGE_KEY): no item, "", a text JSON.parse rejects,
\* or a JSON text
Missing == [kind |-> "missing", doc |-> JNull]
EmptyText == [kind |-> "empty", doc |-> JNull]
Garbage == [kind |-> "garbage", doc |-> JNull]
JsonText(doc) == [kind |-> "json", doc |-> doc]

loadState(raw, t) ==
    IF raw.kind \in {"missing", "empty"} THEN defaultState(t)
    ELSE IF raw.kind = "garbage" THEN defaultState(t)
    ELSE Parse(raw.doc)

\* the item saveState(s) leaves under STORAGE_KEY
saveState(s) == JsonText(Stringify(s))

(***************************************************************************)
(* Progress helpers                                                        *)
(***************************************************************************)
Range(seq) == {seq[i] : i \in DOMAIN seq}

RECURSIVE SumSeq(_)
SumSeq(seq) ==
    IF seq = <<>> THEN 0 ELSE SumSeq(SubSeq(seq, 1, Len(seq) - 1)) + seq[Len(seq)]

\* stepForDay that tests the thresholds before the "all tasks" rule
stepForDayThresholdFirst(tasksCompleted, totalTasks) ==
    IF tasksCompleted <= 0 THEN 0
    ELSE IF tasksCompleted >= 4 THEN 80
    ELSE IF tasksCompleted >= 2 THEN 50
    ELSE IF tasksCompleted >= totalTasks THEN 100
    ELSE 20

\* stepForDay with the 0.8 and 0.5 steps swapped: a 4th task lowers the step
stepForDayDip(tasksCompleted, totalTasks) ==
    IF tasksCompleted <= 0 THEN 0
    ELSE IF tasksCompleted >= totalTasks THEN 100
    ELSE IF tasksCompleted >= 4 THEN 50
    ELSE IF tasksCompleted >= 2 THEN 80
    ELSE 20

\* in hundredths of a block
stepForDay(tasksCompleted, totalTasks) ==
    IF tasksCompleted <= 0 THEN 0
    ELSE IF tasksCompleted >= totalTasks THEN 100
    ELSE IF tasksCompleted >= 4 THEN 80
    ELSE IF tasksCompleted >= 2 THEN 50
    ELSE 20

\* totalBlocks that counts one block for every completed task, uncapped
totalBlocksCountsTasks(goal) ==
    SumSeq([i \in DOMAIN goal.days |-> 100 * Len(goal.days[i].completedTasks)])

\* totalBlocks that leaves out the last day (days.slice(0, NUM_DAYS - 1))
totalBlocksSkipsLastDay(goal) ==
    LET totalTasks == Len(goal.tasks)
        blocks == SumSeq([i \in 1..(Len(goal.days) - 1) |->
                            stepForDay(Len(goal.days[i].completedTasks), totalTasks)])
    IN  IF NUM_DAYS * 100 <= blocks THEN NUM_DAYS * 100 ELSE blocks

\* in hundredths of a block: the sum is a whole number of hundredths, which
\* toFixed(2) returns unchanged
totalBlocks(goal) ==
    LET totalTasks == Len(goal.tasks)
        blocks == SumSeq([i \in DOMAIN goal.days |->
                            stepForDay(Len(goal.days[i].completedTasks), totalTasks)])
    IN  Min(NUM_DAYS * 100, blocks)

\* (totalBlocks / NUM_DAYS) * 100, in units of 1/(100 * NUM_DAYS) percent
completionPct(goal) == totalBlocks(goal) * 100

\* streakDays that counts every day with a completed task
streakDaysCountsAll(goal) ==
    Cardinality({i \in DOMAIN goal.days : Len(goal.days[i].completedTasks) > 0})

\* the loop of streakDays, from day i (1..NUM_DAYS) down
RECURSIVE streakFrom(_, _)
streakFrom(goal, i) ==
    IF i < 1 THEN 0
    ELSE IF Len(goal.days[i].completedTasks) > 0 THEN 1 + streakFrom(goal, i - 1)
    ELSE 0

streakDays(goal) == streakFrom(goal, NUM_DAYS)

\* isDormant that looks at the last day only
isDormantLastDayOnly(goal) == Len(goal.days[NUM_DAYS].completedTasks) = 0

isDormant(goal) ==
    \A i \in 0..(NUM_DAYS - 1) :
        (i >= NUM_DAYS - 2 /\ i >= 0) => ~(Len(goal.days[i + 1].completedTasks) > 0)

\* projected after i days, in millionths: 1 multiplied i times by 1.01.  The
\* model cuts each product at the 6th decimal; the error stays below 0.00001
\* and every product is more than 0.003 away from where toFixed(2) turns.
RECURSIVE projectedAfter(_)
projectedAfter(i) ==
    IF i = 0 THEN 1000000 ELSE (projectedAfter(i - 1) * 101) \div 100

\* Number(x.toFixed(2)), from millionths to hundredths
toFixed2(x) == (x + 5000) \div 10000

\* buildHabitSeries whose real is the day's total, not the running total
buildHabitSeriesPerDay(goals) ==
    [i \in 1..NUM_DAYS |->
        [dayLabel |-> i,
         real |-> SumSeq([g \in DOMAIN goals |-> Len(goals[g].days[i].completedTasks)]),
         projected |-> toFixed2(projectedAfter(i - 1))]]

\* the points D1..D7; dayLabel is the number after the "D", projected is in
\* hundredths
buildHabitSeries(goals) ==
    [i \in 1..NUM_DAYS |->
        [dayLabel |-> i,
         real |-> SumSeq([d \in 1..i |->
                            SumSeq([g \in DOMAIN goals |->
                                      Len(goals[g].days[d].completedTasks)])]),
         projected |-> toFixed2(projectedAfter(i - 1))]]

\* InsertByPct of an unstable sort: of equal entries the later one goes first
RECURSIVE InsertByPctTiesLast(_, _)
InsertByPctTiesLast(sorted, x) ==
    IF sorted = <<>> THEN <<x>>
    ELSE IF Head(sorted).pct > x.pct
         THEN <<Head(sorted)>> \o InsertByPctTiesLast(Tail(sorted), x)
         ELSE <<x>> \o sorted

\* Array.prototype.sort((a, b) => b.pct - a.pct): stable, descending
RECURSIVE InsertByPct(_, _)
InsertByPct(sorted, x) ==
    IF sorted = <<>> THEN <<x>>
    ELSE IF Head(sorted).pct >= x.pct
         THEN <<Head(sorted)>> \o InsertByPct(Tail(sorted), x)
         ELSE <<x>> \o sorted

RECURSIVE SortByPctDesc(_)
SortByPctDesc(seq) ==
    IF seq = <<>> THEN <<>>
    ELSE InsertByPct(SortByPctDesc(SubSeq(seq, 1, Len(seq) - 1)), seq[Len(seq)])

(***************************************************************************)
(* The state updaters of the page's handlers                               *)
(***************************************************************************)
\* new Set(array): the elements in order of first occurrence
RECURSIVE SetOf(_)
SetOf(arr) ==
    IF arr = <<>> THEN <<>>
    ELSE LET rest == SetOf(SubSeq(arr, 1, Len(arr) - 1))
             x == arr[Len(arr)]
         IN  IF x \in Range(rest) THEN rest ELSE Append(rest, x)

\* toggleDay without the Set: the identifier is pushed whether present or not
toggleDayPush(day, taskId) ==
    [completedTasks |-> Append(day.completedTasks, taskId)] @@ day

\* toggleDay that never unchecks
toggleDayAddOnly(day, taskId) ==
    LET completed == SetOf(day.completedTasks)
    IN  [completedTasks |-> IF taskId \in Range(completed) THEN completed
                            ELSE Append(completed, taskId)] @@ day

\* toggleDay whose uncheck empties the day (completed.clear())
toggleDayClearsOnUncheck(day, taskId) ==
    LET completed == SetOf(day.completedTasks)
    IN  [completedTasks |-> IF taskId \in Range(completed) THEN <<>>
                            ELSE Append(completed, taskId)] @@ day

toggleDay(day, taskId) ==
    LET completed == SetOf(day.completedTasks)
        next == IF taskId \in Range(completed)
                THEN SelectSeq(completed, LAMBDA x : x # taskId)
                ELSE Append(completed, taskId)
    IN  [completedTasks |-> next] @@ day

\* handleToggleTask that falls back to the first goal when no goal matches
handleToggleTaskFallback(prev, goalId, taskId, dIndex) ==
    LET hit == \E i \in DOMAIN prev.goals : prev.goals[i].id = goalId
        nextGoals ==
            [i \in DOMAIN prev.goals |->
                LET g == prev.goals[i] IN
                IF (hit /\ g.id # goalId) \/ (~hit /\ i # 1) THEN g
                ELSE [days |-> [idx \in DOMAIN g.days |->
                                  IF idx - 1 # dIndex THEN g.days[idx]
                                  ELSE [completedTasks |->
                                          Append(g.days[idx].completedTasks, taskId)]
                                       @@ g.days[idx]]] @@ g]
    IN  [goals |-> nextGoals] @@ prev

\* handleToggleTask that clamps the day index into 0..6 before it looks
handleToggleTaskClamps(prev, goalId, taskId, dIndex) ==
    LET at == Max(0, Min(NUM_DAYS - 1, dIndex))
        nextGoals ==
            [i \in DOMAIN prev.goals |->
                LET g == prev.goals[i] IN
                IF g.id # goalId THEN g
                ELSE [days |-> [idx \in DOMAIN g.days |->
                                  IF idx - 1 # at THEN g.days[idx]
                                  ELSE toggleDay(g.days[idx], taskId)]] @@ g]
    IN  [goals |-> nextGoals] @@ prev

\* days are indexed from 0 in the source, from 1 here
handleToggleTask(prev, goalId, taskId, dIndex) ==
    LET nextGoals ==
            [i \in DOMAIN prev.goals |->
                LET g == prev.goals[i] IN
                IF g.id # goalId THEN g
                ELSE [days |-> [idx \in DOMAIN g.days |->
                                  IF idx - 1 # dIndex THEN g.days[idx]
                                  ELSE toggleDay(g.days[idx], taskId)]] @@ g]
    IN  [goals |-> nextGoals] @@ prev

\* noteDay that takes an empty text for "no change" (note || day.note)
noteDayKeepsOnEmpty(day, note) ==
    IF note = "" THEN day ELSE [note |-> note] @@ day

noteDay(day, note) == [note |-> note] @@ day

\* handleUpdateNote that rebuilds the state without the history
handleUpdateNoteDropsHistory(prev, goalId, dIndex, note) ==
    [weekStartISO |-> prev.weekStartISO,
     goals |-> [i \in DOMAIN prev.goals |->
                  LET g == prev.goals[i] IN
                  IF g.id # goalId THEN g
                  ELSE [days |-> [idx \in DOMAIN g.days |->
                                    IF idx - 1 = dIndex
                                    THEN [note |-> note] @@ g.days[idx]
                                    ELSE g.days[idx]]] @@ g],
     history |-> <<>>]

handleUpdateNote(prev, goalId, dIndex, note) ==
    LET nextGoals ==
            [i \in DOMAIN prev.goals |->
                LET g == prev.goals[i] IN
                IF g.id # goalId THEN g
                ELSE [days |-> [idx \in DOMAIN g.days |->
                                  IF idx - 1 = dIndex THEN noteDay(g.days[idx], note)
                                  ELSE g.days[idx]]] @@ g]
    IN  [goals |-> nextGoals] @@ prev

\* weekSummary that counts the days with a completed task, not the tasks
weekSummaryCountsDays(st) ==
    LET pcts == [i \in DOMAIN st.goals |-> completionPct(st.goals[i])]
        best == IF st.goals = <<>> THEN 0
                ELSE CHOOSE i \in DOMAIN st.goals :
                        /\ \A j \in DOMAIN st.goals : pcts[j] <= pcts[i]
                        /\ \A j \in 1..(i - 1) : pcts[j] < pcts[i]
    IN  [id |-> st.weekStartISO,
         startISO |-> st.weekStartISO,
         endISO |-> st.weekStartISO + NUM_DAYS - 1,
         totalCompletedTasks |->
            SumSeq([i \in DOMAIN st.goals |->
                      SumSeq([d \in DOMAIN st.goals[i].days |->
                                IF st.goals[i].days[d].completedTasks = <<>> THEN 0 ELSE 1])]),
         totalPossibleTasks |->
            SumSeq([i \in DOMAIN st.goals |-> Len(st.goals[i].tasks) * NUM_DAYS]),
         bestGoalId |-> IF best = 0 THEN Null ELSE st.goals[best].id,
         bestGoalLabel |-> IF best = 0 THEN Null ELSE st.goals[best].label,
         bestGoalCompletion |-> IF best = 0 THEN 0 ELSE pcts[best]]

weekSummary(st) ==
    LET start == DateOf(st.weekStartISO)
        end == start + (NUM_DAYS - 1) * DAY_MS
        totalPossible ==
            SumSeq([i \in DOMAIN st.goals |-> Len(st.goals[i].tasks) * NUM_DAYS])
        totalCompleted ==
            SumSeq([i \in DOMAIN st.goals |->
                      SumSeq([d \in DOMAIN st.goals[i].days |->
                                Len(st.goals[i].days[d].completedTasks)])])
        ranked == SortByPctDesc([i \in DOMAIN st.goals |->
                                   [g |-> st.goals[i], pct |-> completionPct(st.goals[i])]])
    IN  [id |-> st.weekStartISO,
         startISO |-> st.weekStartISO,
         endISO |-> todayISO(end),
         totalCompletedTasks |-> totalCompleted,
         totalPossibleTasks |-> totalPossible,
         bestGoalId |-> IF ranked = <<>> THEN Null ELSE ranked[1].g.id,
         bestGoalLabel |-> IF ranked = <<>> THEN Null ELSE ranked[1].g.label,
         bestGoalCompletion |-> IF ranked = <<>> THEN 0 ELSE ranked[1].pct]

\* resetGoals that leaves the days as they are
resetGoalsKeepsDays(goals) == goals

\* resetGoals with one day too few (Array.from({ length: NUM_DAYS - 1 }))
resetGoalsShort(goals) ==
    [i \in DOMAIN goals |-> [days |-> SubSeq(emptyDays, 1, NUM_DAYS - 1)] @@ goals[i]]

resetGoals(goals) == [i \in DOMAIN goals |-> [days |-> emptyDays] @@ goals[i]]

\* handleStartNewWeek that starts the history over (history: [summary])
handleStartNewWeekDropsHistory(st, t) ==
    [weekStartISO |-> todayISO(t),
     goals |-> [i \in DOMAIN st.goals |-> [days |-> emptyDays] @@ st.goals[i]],
     history |-> <<[id |-> st.weekStartISO, startISO |-> st.weekStartISO,
                    endISO |-> st.weekStartISO + NUM_DAYS - 1,
                    totalCompletedTasks |-> 0, totalPossibleTasks |-> 0,
                    bestGoalId |-> Null, bestGoalLabel |-> Null,
                    bestGoalCompletion |-> 0]>>]

\* handleStartNewWeek that keeps the week start (weekStartISO: state.weekStartISO)
handleStartNewWeekKeepsStart(st, t) ==
    [weekStartISO |-> st.weekStartISO,
     goals |-> resetGoals(st.goals),
     history |-> Append(st.history, weekSummary(st))]

handleStartNewWeek(st, t) ==
    [weekStartISO |-> todayISO(t),
     goals |-> resetGoals(st.goals),
     history |-> Append(st.history, weekSummary(st))]

(***************************************************************************)
(* The timeline tracker (LifeTimeline): tracks, their storage, check-ins   *)
(***************************************************************************)
NumTracks == 2       \* how many of the seed tracks the model keeps
MaxDate == 3         \* check-in dates are the ISO dates of days 0..MaxDate

Track(id, label, section) ==
    [id |-> id, label |-> label, section |-> section, weekSpan |-> 8, logs |-> <<>>]

allSeedTracks ==
    << Track("intro-llm", "Intro to LLM", "Studies"),
       Track("sdms", "SDMS", "Studies"),
       Track("pgm", "PGM", "Studies"),
       Track("crypto", "Intro to Crypto", "Studies"),
       Track("german-a2", "German A2", "Studies"),
       Track("content-workout", "Content Creation + Workout", "Personal Life"),
       Track("guitar", "Guitar", "Personal Life"),
       Track("eng-speaking", "Eng speaking", "Personal Life"),
       Track("dance", "Dance", "Personal Life") >>

seedTracks == SubSeq(allSeedTracks, 1, Min(NumTracks, Len(allSeedTracks)))

StringifyTrack(t) ==
    JObj([id |-> JStr(t.id), label |-> JStr(t.label), section |-> JStr(t.section),
          weekSpan |-> JNum(t.weekSpan),
          logs |-> JArr([i \in DOMAIN t.logs |-> JStr(t.logs[i])])])

\* the item saveTracks(ts) leaves under STORE_KEY
saveTracks(ts) == JsonText(JArr([i \in DOMAIN ts |-> StringifyTrack(ts[i])]))

\* parsed.map throws on anything but an array, and the catch gives the seed;
\* an entry gets logs: [] unless its logs is an array
loadTracks(raw) ==
    IF raw.kind # "json" THEN seedTracks
    ELSE IF raw.doc.j # "arr" THEN seedTracks
    ELSE [i \in DOMAIN raw.doc.v |->
            LET t == raw.doc.v[i] IN
            IF t.j # "obj" THEN [logs |-> <<>>]
            ELSE [logs |-> IF "logs" \in DOMAIN t.v /\ t.v.logs.j = "arr"
                           THEN Parse(t.v.logs) ELSE <<>>] @@ Parse(t)]

\* Array.prototype.sort() without comparator: by the strings' code units,
\* which for "YYYY-MM-DD" dates is by day
RECURSIVE InsertAsc(_, _)
InsertAsc(sorted, x) ==
    IF sorted = <<>> THEN <<x>>
    ELSE IF Head(sorted) <= x THEN <<Head(sorted)>> \o InsertAsc(Tail(sorted), x)
    ELSE <<x>> \o sorted

RECURSIVE SortAsc(_)
SortAsc(seq) ==
    IF seq = <<>> THEN <<>>
    ELSE InsertAsc(SortAsc(SubSeq(seq, 1, Len(seq) - 1)), seq[Len(seq)])

\* commitCheckIn that appends the date and does not sort
commitCheckInAppends(prev, id, isoDate) ==
    [i \in DOMAIN prev |->
        LET t == prev[i] IN
        IF t.id # id THEN t
        ELSE IF isoDate \in Range(t.logs) THEN t
        ELSE [logs |-> Append(t.logs, isoDate)] @@ t]

commitCheckIn(prev, id, isoDate) ==
    [i \in DOMAIN prev |->
        LET t == prev[i] IN
        IF t.id # id THEN t
        ELSE IF isoDate \in Range(t.logs) THEN t
        ELSE [logs |-> SortAsc(Append(t.logs, isoDate))] @@ t]

(***************************************************************************)
(* The page: render, effects, handlers                                     *)
(***************************************************************************)
Notes == {"", "felt tired"}
NoGoal == "no-such-goal"
NoTask == "no-such-task"

IsTrackerState(v) == DOMAIN v = {"weekStartISO", "goals", "history"}

\* const dayIndex = Math.max(0, Math.min(NUM_DAYS - 1, diff))
curDayIndex(d) == Max(0, Min(NUM_DAYS - 1, d))

\* weekFinished that turns a day late (diff > NUM_DAYS)
weekFinishedLate(d) == d > NUM_DAYS

weekFinished(d) == d >= NUM_DAYS

\* the check-in dialog is on screen
checkinShown == app = "running" /\ showCheckin /\ ~weekFinished(diff)

\* the week-summary dialog is on screen
summaryShown == app = "running" /\ showWeekSummary

Marks(st) ==
    SumSeq([i \in DOMAIN st.goals |->
              SumSeq([d \in DOMAIN st.goals[i].days |->
                        Len(st.goals[i].days[d].completedTasks)
                        + (IF "note" \in DOMAIN st.goals[i].days[d]
                              /\ st.goals[i].days[d].note # "" THEN 1 ELSE 0)])])

WithinMarks(st) == Marks(st) <= MaxMarks \/ Marks(st) <= Marks(state)

\* what a step was: the handler, which of its arguments named nothing
\* ("goal", "task", "day"), and for a load the kind of content read
Op(op, bad, raw) == [op |-> op, bad |-> bad, raw |-> raw]

KnownGoal(st, goalId) == \E i \in DOMAIN st.goals : st.goals[i].id = goalId

KnownTask(st, goalId, taskId) ==
    \E i \in DOMAIN st.goals :
        /\ st.goals[i].id = goalId
        /\ \E k \in DOMAIN st.goals[i].tasks : st.goals[i].tasks[k].id = taskId

InRange(dIndex) == dIndex \in 0..(NUM_DAYS - 1)

BadArgs(st, goalId, taskId, dIndex) ==
    (IF KnownGoal(st, goalId) THEN {} ELSE {"goal"})
    \cup (IF taskId = "" \/ KnownTask(st, goalId, taskId) THEN {} ELSE {"task"})
    \cup (IF InRange(dIndex) THEN {} ELSE {"day"})

\* the render after a state update, and the effect on weekFinished
Render(st, checkin, summary) ==
    /\ diff' = diffInDays(now, DateOf(st.weekStartISO))
    /\ showCheckin' = checkin
    /\ showWeekSummary' =
          IF weekFinished(diff') /\ ~weekFinished(diff) THEN TRUE ELSE summary

\* SaveEffect that writes the state of the render before (a stale closure)
SaveEffectStale(st) ==
    IF storageOK
    THEN storage' = saveState(state) /\ app' = app
    ELSE storage' = storage /\ app' = "crashed"

\* the effect on [state]: saveState(state); a throw in it takes the page down
SaveEffect(st) ==
    IF storageOK
    THEN storage' = saveState(st) /\ app' = app
    ELSE storage' = storage /\ app' = "crashed"

\* setState(st) from a handler: the update, the render, the effects
Commit(st, checkin, summary) ==
    /\ state' = st
    /\ Render(st, checkin, summary)
    /\ SaveEffect(st)
    /\ UNCHANGED <<now, storageOK, tracks, tracksStorage>>

ToggleTask(goalId, taskId, dIndex) ==
    LET st == handleToggleTask(state, goalId, taskId, dIndex) IN
    /\ WithinMarks(st)
    /\ Commit(st, showCheckin, showWeekSummary)
    /\ lastOp' = Op("toggle", BadArgs(state, goalId, taskId, dIndex), "")

UpdateNote(goalId, dIndex, note) ==
    LET st == handleUpdateNote(state, goalId, dIndex, note) IN
    /\ WithinMarks(st)
    /\ Commit(st, showCheckin, showWeekSummary)
    /\ lastOp' = Op("note", BadArgs(state, goalId, "", dIndex), "")

\* StartNewWeekUpTo without setShowWeekSummary(false)
StartNewWeekKeepsDialog(cap) ==
    /\ Len(state.history) < cap
    /\ Commit(handleStartNewWeek(state, now), showCheckin, showWeekSummary)
    /\ lastOp' = Op("rollover", {}, "")

\* handleStartNewWeek, while the history holds fewer than cap summaries
StartNewWeekUpTo(cap) ==
    /\ Len(state.history) < cap
    /\ Commit(handleStartNewWeek(state, now), showCheckin, FALSE)
    /\ lastOp' = Op("rollover", {}, "")

StartNewWeek == StartNewWeekUpTo(MaxHistory)

\* the "Today's Check-in" button and the rows: setShowCheckin(true)
OpenCheckin ==
    /\ app = "running"
    /\ ~showCheckin
    /\ Render(state, TRUE, showWeekSummary)
    /\ lastOp' = Op("open", {}, "")
    /\ UNCHANGED <<state, storage, now, storageOK, app, tracks, tracksStorage>>

\* the dialog's close button: setShowCheckin(false)
CloseCheckin ==
    /\ checkinShown
    /\ Render(state, FALSE, showWeekSummary)
    /\ lastOp' = Op("close", {}, "")
    /\ UNCHANGED <<state, storage, now, storageOK, app, tracks, tracksStorage>>

\* a checkbox of the check-in dialog
CheckinToggle ==
    /\ checkinShown
    /\ \E i \in DOMAIN state.goals :
         \E k \in DOMAIN state.goals[i].tasks :
            ToggleTask(state.goals[i].id, state.goals[i].tasks[k].id, curDayIndex(diff))

\* a textarea of the check-in dialog
CheckinNote ==
    /\ checkinShown
    /\ \E i \in DOMAIN state.goals :
         \E text \in Notes :
            UpdateNote(state.goals[i].id, curDayIndex(diff), text)

\* the week-summary dialog's button
SummaryStartNewWeek ==
    /\ summaryShown
    /\ StartNewWeek

\* time passes; nothing renders
Tick ==
    /\ now < (MaxDay + 1) * DAY_MS - 1
    /\ now' = now + 1
    /\ lastOp' = Op("tick", {}, "")
    /\ UNCHANGED <<state, storage, diff, showCheckin, showWeekSummary, storageOK, app, tracks, tracksStorage>>

\* the page is loaded: useState(() => loadState()), the first render, the effects
Mounted(raw, t, ok) ==
    LET st == loadState(raw, t)
        d == IF IsTrackerState(st) THEN diffInDays(t, DateOf(st.weekStartISO)) ELSE 0
    IN  /\ state' = st
        /\ diff' = d
        /\ showCheckin' = FALSE
        /\ showWeekSummary' = (IsTrackerState(st) /\ weekFinished(d))
        /\ app' = IF IsTrackerState(st) /\ ok THEN "running" ELSE "crashed"
        /\ storage' = IF IsTrackerState(st) /\ ok THEN saveState(st) ELSE raw
        /\ lastOp' = Op("load", {}, raw.kind)

Reload ==
    /\ Mounted(storage, now, storageOK)
    /\ UNCHANGED <<now, storageOK, tracks, tracksStorage>>

\* the page is opened at one of the instants ticks over the stored content raw
InitAt(raw, ticks) ==
    /\ now \in ticks
    /\ storageOK = TRUE
    /\ tracks = loadTracks(Missing)
    /\ tracksStorage = saveTracks(loadTracks(Missing))
    /\ LET st == loadState(raw, now)
           d == IF IsTrackerState(st) THEN diffInDays(now, DateOf(st.weekStartISO)) ELSE 0
       IN  /\ state = st
           /\ diff = d
           /\ showCheckin = FALSE
           /\ showWeekSummary = (IsTrackerState(st) /\ weekFinished(d))
           /\ app = IF IsTrackerState(st) THEN "running" ELSE "crashed"
           /\ storage = IF IsTrackerState(st) THEN saveState(st) ELSE raw
           /\ lastOp = Op("load", {}, raw.kind)

InitWith(raw) == InitAt(raw, (StartDay * DAY_MS)..(StartDay * DAY_MS + DAY_MS - 1))

\* the page is opened on day StartDay; the first visit, on day 0, stored the seed
Init == InitWith(saveState(defaultState(0)))

Next ==
    \/ OpenCheckin
    \/ CloseCheckin
    \/ CheckinToggle
    \/ CheckinNote
    \/ SummaryStartNewWeek
    \/ Tick
    \/ Reload

Spec == Init /\ [][Next]_vars

(***************************************************************************)
(* The handlers called with any arguments, valid or not                    *)
(***************************************************************************)
GoalArgs == {seedGoals[i].id : i \in DOMAIN seedGoals} \cup {NoGoal}
TaskArgs == {seedGoals[1].tasks[k].id : k \in DOMAIN seedGoals[1].tasks} \cup {NoTask}
DayArgs == {NUM_DAYS - 1, NUM_DAYS}

ApiToggleTask ==
    /\ app = "running"
    /\ \E goalId \in GoalArgs, taskId \in TaskArgs, dIndex \in DayArgs :
          ToggleTask(goalId, taskId, dIndex)

ApiUpdateNote ==
    /\ app = "running"
    /\ \E goalId \in GoalArgs, dIndex \in DayArgs, note \in Notes :
          UpdateNote(goalId, dIndex, note)

ApiStartNewWeek ==
    /\ app = "running"
    /\ StartNewWeek

NextApi ==
    \/ ApiToggleTask
    \/ ApiUpdateNote
    \/ ApiStartNewWeek

SpecApi == Init /\ [][NextApi]_vars

(***************************************************************************)
(* The page opened over any stored content                                 *)
(***************************************************************************)
\* a JSON text that is an object but no TrackerState
PartialDoc == JObj([weekStartISO |-> JStr(0)])
OtherDoc == JObj([tracks |-> JArr(<<>>)])

RawContents ==
    {Missing, EmptyText, Garbage, JsonText(PartialDoc), JsonText(OtherDoc),
     saveState(defaultState(0))}

InitLoad == \E raw \in RawContents : InitWith(raw)

SpecLoad == InitLoad /\ [][Next]_vars

(***************************************************************************)
(* The handlers called while localStorage may stop taking writes           *)
(***************************************************************************)
\* localStorage.setItem starts to throw (quota exceeded, storage disabled)
QuotaExceeded ==
    /\ app = "running"
    /\ storageOK
    /\ storageOK' = FALSE
    /\ lastOp' = Op("quota", {}, "")
    /\ UNCHANGED <<state, storage, now, diff, showCheckin, showWeekSummary, app, tracks, tracksStorage>>

NextQuota ==
    \/ ApiToggleTask
    \/ ApiUpdateNote
    \/ ApiStartNewWeek
    \/ QuotaExceeded

SpecQuota == Init /\ [][NextQuota]_vars

(***************************************************************************)
(* The page watched over the week that follows a rollover                  *)
(***************************************************************************)
WeekHorizon == MaxDay + NUM_DAYS    \* the clock stops at the end of this day

TickOn ==
    /\ now < (WeekHorizon + 1) * DAY_MS - 1
    /\ now' = now + 1
    /\ lastOp' = Op("tick", {}, "")
    /\ UNCHANGED <<state, storage, diff, showCheckin, showWeekSummary, storageOK, app, tracks, tracksStorage>>

NextWeek ==
    \/ OpenCheckin
    \/ CloseCheckin
    \/ SummaryStartNewWeek
    \/ TickOn
    \/ Reload

SpecWeek == Init /\ [][NextWeek]_vars

(***************************************************************************)
(* The page opened, the week over, on a stored week of any shape: goals of *)
(* 0..MaxCount tasks, days of 0..MaxCount completed entries                *)
(***************************************************************************)
MaxCount == 5        \* tasks of a stored goal, completed entries of a stored day

StoredTasks ==
    << Task("llm-notes", "Review lecture notes"),
       Task("llm-ex", "Solve 2 practice questions"),
       Task("llm-reading", "Read 5 pages"),
       Task("llm-video", "Watch 10 min recap"),
       Task("task-5", "Task 5"),
       Task("task-6", "Task 6"),
       Task("task-7", "Task 7"),
       Task("task-8", "Task 8") >>

\* a day's completedTasks holds the first c identifiers, a goal's tasks the
\* first n tasks: with c > n the day holds identifiers of no task of the goal
StoredDay(c) ==
    [completedTasks |-> [k \in 1..Min(c, Len(StoredTasks)) |-> StoredTasks[k].id],
     note |-> ""]

\* the days a stored week has check-ins on: the first one, or all of them
DoneDays == {1, NUM_DAYS}

StoredGoal(seed, n, c, k) ==
    [id |-> seed.id, label |-> seed.label, section |-> seed.section,
     tasks |-> SubSeq(StoredTasks, 1, Min(n, Len(StoredTasks))),
     days |-> [d \in 1..NUM_DAYS |-> IF d <= k THEN StoredDay(c) ELSE emptyDay]]

StoredGoals(seed) ==
    {StoredGoal(seed, n, c, k) : n \in 0..MaxCount, c \in 0..MaxCount, k \in DoneDays}

StoredStates ==
    {[weekStartISO |-> 0, goals |-> gs, history |-> <<>>] :
        gs \in {<<>>}
               \cup {<<g>> : g \in StoredGoals(allSeedGoals[1])}
               \cup {<<g, h>> : g \in StoredGoals(allSeedGoals[1]),
                                h \in StoredGoals(allSeedGoals[2])}}

InitCalc == \E st \in StoredStates : InitAt(saveState(st), {NUM_DAYS * DAY_MS})

NextCalc ==
    \/ OpenCheckin
    \/ CloseCheckin
    \/ SummaryStartNewWeek
    \/ Reload

SpecCalc == InitCalc /\ [][NextCalc]_vars

(***************************************************************************)
(* The page opened on a stored week with check-ins on any set of days      *)
(***************************************************************************)
MaxPerDay == 2       \* completed entries of a day with a check-in

\* the first goal with c entries on each day of done, its tasks the seed's
PatternGoal(seed, c, done) ==
    [days |-> [d \in 1..NUM_DAYS |-> IF d \in done THEN StoredDay(c) ELSE emptyDay]]
    @@ seed

PatternGoals(seed) ==
    {PatternGoal(seed, c, done) : c \in 1..MaxPerDay, done \in SUBSET (1..NUM_DAYS)}

\* the second goal with one entry on each of its first k days
PrefixGoals(seed) == {PatternGoal(seed, 1, 1..k) : k \in {0} \cup DoneDays}

PatternStates ==
    {[weekStartISO |-> 0, goals |-> gs, history |-> <<>>] :
        gs \in {<<g>> : g \in PatternGoals(allSeedGoals[1])}
               \cup {<<g, h>> : g \in PatternGoals(allSeedGoals[1]),
                                h \in PrefixGoals(allSeedGoals[2])}}

InitDays == \E st \in PatternStates : InitAt(saveState(st), {StartDay * DAY_MS})

SpecDays == InitDays /\ [][Next]_vars

(***************************************************************************)
(* The page watched over two rollovers                                     *)
(***************************************************************************)
MaxWeeks == 2        \* rollovers the page is watched through

WeeksHorizon == MaxDay + NUM_DAYS + 1    \* the clock stops at the end of this day

SummaryRollover ==
    /\ summaryShown
    /\ StartNewWeekUpTo(MaxWeeks)

TickWeeks ==
    /\ now < (WeeksHorizon + 1) * DAY_MS - 1
    /\ now' = now + 1
    /\ lastOp' = Op("tick", {}, "")
    /\ UNCHANGED <<state, storage, diff, showCheckin, showWeekSummary, storageOK, app, tracks, tracksStorage>>

NextWeeks ==
    \/ OpenCheckin
    \/ CloseCheckin
    \/ SummaryRollover
    \/ TickWeeks
    \/ Reload

SpecWeeks == Init /\ [][NextWeeks]_vars

(***************************************************************************)
(* The timeline tracker's steps                                            *)
(***************************************************************************)
NoTrack == "no-such-track"
TrackArgs == {seedTracks[i].id : i \in DOMAIN seedTracks} \cup {NoTrack}
Dates == 0..MaxDate

\* a marker is dropped on a rail: commitCheckIn, the render, the save effect
\* (if (tracks.length) saveTracks(tracks))
CommitCheckIn ==
    \E id \in TrackArgs, isoDate \in Dates :
        LET next == commitCheckIn(tracks, id, isoDate)
            known == \E i \in DOMAIN tracks : tracks[i].id = id
            logged == \E i \in DOMAIN tracks :
                         tracks[i].id = id /\ isoDate \in Range(tracks[i].logs)
        IN  /\ tracks' = next
            /\ tracksStorage' = IF next # <<>> THEN saveTracks(next) ELSE tracksStorage
            /\ lastOp' = Op("commit", IF known THEN {} ELSE {"track"},
                            IF logged THEN "logged" ELSE "new")
            /\ UNCHANGED <<state, storage, now, diff, showCheckin, showWeekSummary,
                           storageOK, app>>

\* the timeline is loaded again: useState(loadTracks()) and the save effect
ReloadTimeline ==
    LET ts == loadTracks(tracksStorage)
    IN  /\ tracks' = ts
        /\ tracksStorage' = IF ts # <<>> THEN saveTracks(ts) ELSE tracksStorage
        /\ lastOp' = Op("loadTracks", {}, tracksStorage.kind)
        /\ UNCHANGED <<state, storage, now, diff, showCheckin, showWeekSummary,
                       storageOK, app>>

NextTimeline ==
    \/ CommitCheckIn
    \/ ReloadTimeline

SpecTimeline == Init /\ [][NextTimeline]_vars

(***************************************************************************)
(* Properties                                                              *)
(***************************************************************************)
AllCompletedEmpty(goals) ==
    \A i \in DOMAIN goals :
        /\ Len(goals[i].days) = NUM_DAYS
        /\ \A d \in DOMAIN goals[i].days : goals[i].days[d].completedTasks = <<>>

GoalIds(st) == {st.goals[i].id : i \in DOMAIN st.goals}

Completed(st, i, d) == Range(st.goals[i].days[d].completedTasks)

\* C1: one rollover, applied to any reachable state, gives the old history with
\* exactly one summary appended at its end, and goals whose 7 days all have an
\* empty completedTasks list.
C1_RolloverAppendsOneSummary ==
    app = "running" =>
        LET st == handleStartNewWeek(state, now)
            n == Len(state.history)
        IN  /\ Len(st.history) = n + 1
            /\ SubSeq(st.history, 1, n) = state.history
            /\ st.history[n + 1] = weekSummary(state)
            /\ AllCompletedEmpty(st.goals)

\* a rollover has just archived a week that held completed tasks
C1_Witness ==
    /\ lastOp.op = "rollover"
    /\ Len(state.history) = 1
    /\ state.history[1].totalCompletedTasks > 0
    /\ AllCompletedEmpty(state.goals)

\* C2: the stored snapshot changes its history only by gaining the summary of
\* the stored week, in the same write that empties every stored day and sets
\* the stored week start to today; a rollover always makes that write, and no
\* other write changes the stored week start.
C2_RolloverPersistedAtomically ==
    [][(storage.kind = "json" /\ storage'.kind = "json") =>
          LET p == Parse(storage.doc)
              q == Parse(storage'.doc)
          IN  /\ (q.history # p.history \/ lastOp'.op = "rollover") =>
                    /\ q.history = Append(p.history, weekSummary(p))
                    /\ AllCompletedEmpty(q.goals)
                    /\ q.weekStartISO = todayISO(now)
              /\ q.history = p.history =>
                    /\ q.weekStartISO = p.weekStartISO
                    /\ lastOp'.op # "rollover"]_vars

\* the snapshot stored by a rollover of a week that held completed tasks
C2_Witness ==
    /\ lastOp.op = "rollover"
    /\ storage.kind = "json"
    /\ LET q == Parse(storage.doc)
       IN  /\ Len(q.history) = 1
           /\ q.history[1].totalCompletedTasks > 0
           /\ AllCompletedEmpty(q.goals)
           /\ q.weekStartISO = todayISO(now)
           /\ q.weekStartISO # q.history[1].startISO

\* C3: toggleTask and setNote leave history and weekStartISO as they were.
C3_MutationsKeepHistory ==
    [][lastOp'.op \in {"toggle", "note"} =>
          /\ state'.history = state.history
          /\ state'.weekStartISO = state.weekStartISO]_vars

\* a check-in mutation has run after a rollover
C3_Witness ==
    /\ lastOp.op \in {"toggle", "note"}
    /\ lastOp.bad = {}
    /\ Len(state.history) = 1
    /\ Marks(state) > 0

\* C4: every goal has exactly 7 days, whatever toggleTask, setNote and
\* rollover calls were made.
C4_SevenDays ==
    \A i \in DOMAIN state.goals : DOMAIN state.goals[i].days = 1..NUM_DAYS

\* a toggle with a day index out of range has run after a rollover
C4_Witness ==
    /\ lastOp.op = "toggle"
    /\ "day" \in lastOp.bad
    /\ Len(state.history) = 1

C6_ToggleFlipsMembership ==
    \A i \in DOMAIN state.goals :
        \A taskId \in TaskArgs :
            \A dIndex \in 0..(NUM_DAYS - 1) :
                LET st == handleToggleTask(state, state.goals[i].id, taskId, dIndex)
                    before == Completed(state, i, dIndex + 1)
                    after == Completed(st, i, dIndex + 1)
                IN  /\ taskId \in after <=> taskId \notin before
                    /\ after \ {taskId} = before \ {taskId}

\* a toggle with valid arguments has run and left a task checked
C6_Witness ==
    /\ lastOp = Op("toggle", {}, "")
    /\ \E i \in DOMAIN state.goals :
          Completed(state, i, NUM_DAYS) # {}

\* C7: toggleTask and setNote with a goalId that matches no goal change
\* nothing of the state and raise no error.
C7_UnknownGoalIsNoOp ==
    [][(lastOp'.op \in {"toggle", "note"} /\ "goal" \in lastOp'.bad) =>
          /\ state' = state
          /\ app' = "running"]_vars

\* a call naming no goal has run on a state that holds marks
C7_Witness ==
    /\ lastOp.op \in {"toggle", "note"}
    /\ "goal" \in lastOp.bad
    /\ Marks(state) > 0
    /\ app = "running"

\* C8: toggleTask with an existing goal and a taskId that is none of the
\* goal's tasks changes nothing.
C8_UnknownTaskIsNoOp ==
    [][(lastOp'.op = "toggle" /\ lastOp'.bad = {"task"}) => state' = state]_vars

\* C9: setNote with an existing goal and a day index in 0..6 sets that day's
\* note to the text, the empty text included, and changes nothing else.
C9_SetNoteSetsExactlyTheNote ==
    \A i \in DOMAIN state.goals :
        \A dIndex \in 0..(NUM_DAYS - 1) :
            \A text \in Notes :
                LET st == handleUpdateNote(state, state.goals[i].id, dIndex, text)
                    g == st.goals[i]
                IN  /\ g.days[dIndex + 1].note = text
                    /\ g.days[dIndex + 1].completedTasks
                          = state.goals[i].days[dIndex + 1].completedTasks
                    /\ \A d \in DOMAIN g.days :
                          d # dIndex + 1 => g.days[d] = state.goals[i].days[d]
                    /\ DOMAIN g.days = DOMAIN state.goals[i].days
                    /\ [days |-> <<>>] @@ g = [days |-> <<>>] @@ state.goals[i]
                    /\ \A k \in DOMAIN st.goals : k # i => st.goals[k] = state.goals[k]
                    /\ DOMAIN st.goals = DOMAIN state.goals
                    /\ st.weekStartISO = state.weekStartISO
                    /\ st.history = state.history

\* a note has been written by a call with valid arguments
C9_Witness ==
    /\ lastOp = Op("note", {}, "")
    /\ \E i \in DOMAIN state.goals : state.goals[i].days[NUM_DAYS].note = "felt tired"

\* C10: loadState over a missing key or malformed content (not parseable, or
\* not shaped as a TrackerState) gives the seed default state, and the page
\* runs.
C10_LoadFallsBackToSeed ==
    (/\ lastOp.op = "load"
     /\ \/ lastOp.raw \in {"missing", "empty", "garbage"}
        \/ lastOp.raw = "json" /\ ~IsTrackerState(Parse(storage.doc)))
    => (app = "running" /\ state = defaultState(now))

\* C11: for every state reached through toggleTask, setNote and rollover,
\* saveState(state) followed by loadState() gives back a state equal to it:
\* week start, goals with their days, completed tasks and notes, history.
C11_SaveLoadRoundTrip ==
    app = "running" =>
        LET back == loadState(saveState(state), now)
        IN  /\ back.weekStartISO = state.weekStartISO
            /\ back.goals = state.goals
            /\ back.history = state.history
            /\ back = state

\* a state with an archived week, a completed task and a note has been saved
C11_Witness ==
    /\ lastOp.op \in {"toggle", "note"}
    /\ Len(state.history) = 1
    /\ state.history[1].totalCompletedTasks > 0
    /\ \E i \in DOMAIN state.goals :
          \E d \in DOMAIN state.goals[i].days :
              /\ state.goals[i].days[d].completedTasks # <<>>
              /\ state.goals[i].days[d].note = "felt tired"
    /\ storage = saveState(state)

\* C12: when the storage write fails, the toggleTask, setNote or rollover
\* that triggered it raises no error to the application: the page keeps
\* running on its in-memory state.
C12_SaveFailureIsSwallowed ==
    (~storageOK /\ lastOp.op \in {"toggle", "note", "rollover"}) => app = "running"

\* C13: after every toggleTask, setNote or rollover that ran with storage
\* available, the stored snapshot is the serialization of the whole current
\* in-memory state.
C13_StorageHoldsWholeState ==
    (storageOK /\ app = "running" /\ lastOp.op \in {"toggle", "note", "rollover"}) =>
        /\ storage = saveState(state)
        /\ storage.kind = "json"
        /\ Parse(storage.doc) = state

\* a rollover of a week with completed tasks has been stored
C13_Witness ==
    /\ storageOK
    /\ lastOp.op = "rollover"
    /\ storage.kind = "json"
    /\ Len(Parse(storage.doc).history) = 1
    /\ Parse(storage.doc).history[1].totalCompletedTasks > 0
    /\ Parse(storage.doc).weekStartISO = state.weekStartISO

\* C14: at every render the day offset is diffInDays(today, weekStart) for
\* the current date and the stored week start; the week is Finished if and
\* only if that offset is at least 7; while Active the check-in day index is
\* the offset clamped into 0..6, and the check-in dialog shows only then.
C14_FinishedIffSevenDays ==
    [][(lastOp'.op # "tick" /\ app' = "running") =>
          LET offset == todayISO(now') - state'.weekStartISO
          IN  /\ diff' = offset
              /\ weekFinished(diff') <=> offset >= 7
              /\ ~weekFinished(diff') =>
                    /\ curDayIndex(diff') \in 0..6
                    /\ curDayIndex(diff') = (IF offset < 0 THEN 0 ELSE offset)
              /\ checkinShown' => ~weekFinished(diff')]_vars

\* the first week is found Finished by a render on its 8th day
C14_Witness ==
    /\ lastOp.op = "open"
    /\ state.history = <<>>
    /\ todayISO(now) - state.weekStartISO = 7
    /\ weekFinished(diff)
    /\ showWeekSummary

\* C15: a rollover sets weekStartISO to the date of the rollover, so right
\* after it the day offset is 0 and the week is Active; the new week is then
\* Finished at a render if and only if 7 further days have gone by.
C15_RolloverStartsActiveWeek ==
    [][/\ lastOp'.op = "rollover" =>
             /\ state'.weekStartISO = todayISO(now)
             /\ diff' = 0
             /\ ~weekFinished(diff')
             /\ ~showWeekSummary'
       /\ (state'.history # <<>> /\ lastOp'.op # "tick" /\ app' = "running") =>
             (weekFinished(diff') <=> todayISO(now') >= state'.weekStartISO + 7)]_vars

\* the week begun by a rollover is found Finished 7 days later
C15_Witness ==
    /\ Len(state.history) = 1
    /\ lastOp.op \in {"open", "load"}
    /\ todayISO(now) = state.weekStartISO + 7
    /\ state.weekStartISO = state.history[1].startISO + 7
    /\ weekFinished(diff)
    /\ showWeekSummary

\* C16: the summary a rollover appends names as best goal the goal of the
\* highest completionPct, the first one in the goals list among equals; with
\* an empty goals list bestGoalId and bestGoalLabel are null.
C16_BestGoalIsFirstMaximum ==
    [][lastOp'.op = "rollover" =>
          LET w == state'.history[Len(state'.history)]
              goals == state.goals
          IN  IF goals = <<>>
              THEN w.bestGoalId = Null /\ w.bestGoalLabel = Null
              ELSE \E i \in DOMAIN goals :
                      /\ \A j \in DOMAIN goals :
                            completionPct(goals[j]) <= completionPct(goals[i])
                      /\ \A j \in 1..(i - 1) :
                            completionPct(goals[j]) < completionPct(goals[i])
                      /\ w.bestGoalId = goals[i].id
                      /\ w.bestGoalLabel = goals[i].label]_vars

\* a rollover of two goals that tied: both have 2 tasks, the week held 14
\* completed tasks and the best goal stands at 20 percent, so each goal had
\* 1 task done on each of the 7 days; the first goal is named
C16_Witness ==
    /\ lastOp.op = "rollover"
    /\ Len(state.goals) = 2
    /\ Len(state.goals[1].tasks) = 2
    /\ Len(state.goals[2].tasks) = 2
    /\ state.history[1].totalCompletedTasks = 2 * NUM_DAYS
    /\ state.history[1].bestGoalCompletion = 20 * 100 * NUM_DAYS
    /\ state.history[1].bestGoalId = state.goals[1].id

\* C17: the summary a rollover appends has id and startISO equal to the week
\* start of the week rolled over, endISO 6 days after it, totalCompletedTasks
\* the number of completed-task entries over all goals and days, and
\* totalPossibleTasks 7 times the number of tasks over all goals.
C17_SummaryTotals ==
    [][lastOp'.op = "rollover" =>
          LET w == state'.history[Len(state'.history)]
              done == UNION {UNION {{<<i, d, k>> :
                                       k \in DOMAIN state.goals[i].days[d].completedTasks} :
                                    d \in DOMAIN state.goals[i].days} :
                             i \in DOMAIN state.goals}
              tasks == UNION {{<<i, k>> : k \in DOMAIN state.goals[i].tasks} :
                              i \in DOMAIN state.goals}
          IN  /\ w.id = state.weekStartISO
              /\ w.startISO = state.weekStartISO
              /\ w.endISO = state.weekStartISO + 6
              /\ w.totalCompletedTasks = Cardinality(done)
              /\ w.totalPossibleTasks = 7 * Cardinality(tasks)]_vars

\* a rollover has archived a week with two completed tasks on one day
C17_Witness ==
    /\ lastOp.op = "rollover"
    /\ state.history[1].totalCompletedTasks = 2
    /\ state.history[1].totalPossibleTasks = NUM_DAYS * NumGoals * MaxTasks
    /\ state.history[1].endISO = state.history[1].startISO + 6
    /\ state.history[1].bestGoalCompletion = 100 * 100

\* C18: for completedCount >= 0 and totalTasks >= 0 stepForDay gives the
\* value of the first rule that matches: 0 completed gives 0; at least
\* totalTasks gives 1.0; at least 4 gives 0.8; at least 2 gives 0.5; else
\* 0.2.  So stepForDay(0, T) = 0, stepForDay(T, T) = 1.0 for T >= 1, and
\* stepForDay(0, 0) = 0.  Checked for all counts up to MaxCount and for the
\* counts of every day of the state.
C18_StepForDayRules ==
    LET Rule(c, n) ==
            IF c = 0 THEN 0
            ELSE IF c >= n THEN 100
            ELSE IF c >= 4 THEN 80
            ELSE IF c >= 2 THEN 50
            ELSE 20
    IN  /\ \A c \in 0..MaxCount, n \in 0..MaxCount :
              /\ stepForDay(c, n) = Rule(c, n)
              /\ stepForDay(0, n) = 0
              /\ n >= 1 => stepForDay(n, n) = 100
        /\ stepForDay(0, 0) = 0
        /\ app = "running" =>
              \A i \in DOMAIN state.goals :
                  \A d \in DOMAIN state.goals[i].days :
                      stepForDay(Len(state.goals[i].days[d].completedTasks),
                                 Len(state.goals[i].tasks))
                        = Rule(Len(state.goals[i].days[d].completedTasks),
                               Len(state.goals[i].tasks))

\* a week whose goal has 5 tasks, 4 of them completed on a day (the 0.8
\* rule), next to a goal without tasks
C18_Witness ==
    /\ app = "running"
    /\ Len(state.goals) = 2
    /\ Len(state.goals[1].tasks) = 5
    /\ Len(state.goals[1].days[1].completedTasks) = 4
    /\ stepForDay(Len(state.goals[1].days[1].completedTasks),
                  Len(state.goals[1].tasks)) = 80
    /\ state.goals[2].tasks = <<>>

\* C19: totalBlocks(goal) lies in 0..7 and completionPct(goal) in 0..100,
\* however many tasks are completed on each day.
C19_BlocksAndPctBounded ==
    app = "running" =>
        \A i \in DOMAIN state.goals :
            /\ totalBlocks(state.goals[i]) >= 0
            /\ totalBlocks(state.goals[i]) <= 7 * 100
            /\ completionPct(state.goals[i]) >= 0
            /\ completionPct(state.goals[i]) <= 100 * (100 * NUM_DAYS)

\* a goal with more completed entries than tasks on each of the 7 days: 7
\* blocks, 100 percent
C19_Witness ==
    /\ app = "running"
    /\ \E i \in DOMAIN state.goals :
          /\ state.goals[i].tasks # <<>>
          /\ \A d \in DOMAIN state.goals[i].days :
                Len(state.goals[i].days[d].completedTasks) > Len(state.goals[i].tasks)
          /\ totalBlocks(state.goals[i]) = 7 * 100
          /\ completionPct(state.goals[i]) = 100 * (100 * NUM_DAYS)

\* C20: totalBlocks(goal) is the sum over the 7 days of stepForDay(completed
\* that day, tasks of the goal) and completionPct(goal) is totalBlocks / 7 *
\* 100; a goal of 2 tasks with 1 completed on each day has 1.4 blocks and 20
\* percent, a goal of 4 tasks with all 4 completed on day 0 only has 1.0.
C20_BlocksAreSumOfSteps ==
    app = "running" =>
        \A i \in DOMAIN state.goals :
            LET g == state.goals[i]
                n == Len(g.tasks)
                count(d) == Len(g.days[d].completedTasks)
                DaysAt(step) == {d \in 1..7 : stepForDay(count(d), n) = step}
                each(c) == \A d \in 1..7 : count(d) = c
            IN  /\ DOMAIN g.days = 1..7
                /\ totalBlocks(g) = 100 * Cardinality(DaysAt(100))
                                    + 80 * Cardinality(DaysAt(80))
                                    + 50 * Cardinality(DaysAt(50))
                                    + 20 * Cardinality(DaysAt(20))
                /\ completionPct(g) * 7 = totalBlocks(g) * 100 * NUM_DAYS
                /\ (n = 2 /\ each(1)) =>
                      (totalBlocks(g) = 140 /\ completionPct(g) = 20 * (100 * NUM_DAYS))
                /\ (n = 4 /\ count(1) = 4 /\ \A d \in 2..7 : count(d) = 0) =>
                      totalBlocks(g) = 100

\* the week of the two examples: a goal of 4 tasks, all done on day 0 only,
\* and a goal of 2 tasks with 1 done on each day
C20_Witness ==
    /\ app = "running"
    /\ Len(state.goals) = 2
    /\ Len(state.goals[1].tasks) = 4
    /\ Len(state.goals[1].days[1].completedTasks) = 4
    /\ \A d \in 2..7 : state.goals[1].days[d].completedTasks = <<>>
    /\ totalBlocks(state.goals[1]) = 100
    /\ Len(state.goals[2].tasks) = 2
    /\ \A d \in 1..7 : Len(state.goals[2].days[d].completedTasks) = 1
    /\ totalBlocks(state.goals[2]) = 140

\* C21: completionPct never decreases when one day's number of completed
\* tasks grows and the other days stay as they are; so a toggleTask that
\* adds a task never lowers the goal's completionPct.
C21_PctMonotonicInCompleted ==
    app = "running" =>
        \A i \in DOMAIN state.goals :
            \A d \in 1..NUM_DAYS :
                LET g == state.goals[i]
                    c == Len(g.days[d].completedTasks)
                    With(n) == [days |-> [g.days EXCEPT ![d] = StoredDay(n)]] @@ g
                IN  /\ \A n \in c..(MaxCount + 1) :
                          completionPct(With(n)) >= completionPct(g)
                    /\ \A k \in 1..(MaxCount + 1) :
                          StoredTasks[k].id \notin Range(g.days[d].completedTasks) =>
                              completionPct(
                                  handleToggleTask(state, g.id, StoredTasks[k].id, d - 1)
                                      .goals[i]) >= completionPct(g)

\* a goal of 5 tasks with 3 done on a day: a 4th task raises the day's step
\* from 0.5 to 0.8
C21_Witness ==
    /\ app = "running"
    /\ \E i \in DOMAIN state.goals :
          LET g == state.goals[i]
          IN  /\ Len(g.tasks) = 5
              /\ Len(g.days[1].completedTasks) = 3
              /\ completionPct(handleToggleTask(state, g.id, StoredTasks[4].id, 0).goals[i])
                    = completionPct(g) + 30 * 100

\* C22: streakDays(goal) is the length of the longest run of days ending at
\* day index 6 that all have a completed task: 0 when day 6 has none,
\* whatever days 0..5 hold; 7 when all 7 days have one; non-empty days
\* before the first empty day met from day 6 backward do not count.
C22_StreakIsTrailingRun ==
    app = "running" =>
        \A i \in DOMAIN state.goals :
            LET g == state.goals[i]
                some(d) == g.days[d].completedTasks # <<>>
                runs == {n \in 0..7 : \A d \in (8 - n)..7 : some(d)}
            IN  /\ streakDays(g) \in runs
                /\ \A n \in runs : n <= streakDays(g)
                /\ ~some(7) => streakDays(g) = 0
                /\ (\A d \in 1..7 : some(d)) => streakDays(g) = 7

\* after a checkbox was unticked: days 0..4 and day 6 have completed tasks,
\* day 5 has none, and the streak is 1
C22_Witness ==
    /\ app = "running"
    /\ lastOp.op = "toggle"
    /\ LET g == state.goals[1]
       IN  /\ \A d \in 1..5 : g.days[d].completedTasks # <<>>
           /\ g.days[6].completedTasks = <<>>
           /\ Len(g.days[7].completedTasks) = 1
           /\ streakDays(g) = 1

\* C23: isDormant(goal) is true if and only if day index 5 and day index 6
\* both have no completed task; what days 0..4 hold does not matter.
C23_DormantIffLastTwoEmpty ==
    app = "running" =>
        \A i \in DOMAIN state.goals :
            LET g == state.goals[i]
                cleared == [days |-> [d \in 1..7 |->
                                        IF d <= 5 THEN emptyDay ELSE g.days[d]]] @@ g
            IN  /\ isDormant(g) <=> (/\ g.days[6].completedTasks = <<>>
                                     /\ g.days[7].completedTasks = <<>>)
                /\ isDormant(g) <=> isDormant(cleared)

\* after the last day's only checkbox was unticked: days 0..4 have completed
\* tasks, days 5 and 6 have none, and the goal is dormant
C23_Witness ==
    /\ app = "running"
    /\ lastOp.op = "toggle"
    /\ LET g == state.goals[1]
       IN  /\ \A d \in 1..5 : g.days[d].completedTasks # <<>>
           /\ g.days[6].completedTasks = <<>>
           /\ g.days[7].completedTasks = <<>>
           /\ isDormant(g)

\* C24: buildHabitSeries(goals) gives 7 points in day order; real[i] is the
\* number of completed tasks over all goals on days 0..i, so it never
\* decreases; projected is 1, 1.01, 1.02, 1.03, 1.04, 1.05, 1.06 (1.01^i to
\* 2 decimals) whatever the goals; day totals 3 then 2 give real 3 then 5.
C24_HabitSeries ==
    app = "running" =>
        LET points == buildHabitSeries(state.goals)
            doneUpTo(n) ==
                UNION {UNION {{<<i, d, k>> :
                                 k \in DOMAIN state.goals[i].days[d].completedTasks} :
                              d \in 1..n} :
                       i \in DOMAIN state.goals}
            total(d) == Cardinality(doneUpTo(d)) - Cardinality(doneUpTo(d - 1))
        IN  /\ DOMAIN points = 1..7
            /\ \A n \in 1..7 :
                  /\ points[n].dayLabel = n
                  /\ points[n].real = Cardinality(doneUpTo(n))
            /\ \A n \in 1..6 : points[n].real <= points[n + 1].real
            /\ [n \in 1..7 |-> points[n].projected]
                  = <<100, 101, 102, 103, 104, 105, 106>>
            /\ (total(1) = 3 /\ total(2) = 2) =>
                  (points[1].real = 3 /\ points[2].real = 5)

\* two goals with 3 completed tasks on day 0 and 2 on day 1: real is 3, 5
C24_Witness ==
    /\ app = "running"
    /\ Len(state.goals) = 2
    /\ Len(state.goals[1].days[1].completedTasks)
          + Len(state.goals[2].days[1].completedTasks) = 3
    /\ Len(state.goals[1].days[2].completedTasks)
          + Len(state.goals[2].days[2].completedTasks) = 2
    /\ buildHabitSeries(state.goals)[1].real = 3
    /\ buildHabitSeries(state.goals)[2].real = 5
    /\ buildHabitSeries(state.goals)[7].real > 5

\* C25: a rollover happens only from the week-summary dialog, which shows
\* only once the week was seen Finished (day offset at least 7) and which
\* the rollover hides; so no week is rolled over twice: each rollover moves
\* the week start at least 7 days on, and the start dates of consecutive
\* summaries in history are at least 7 days apart, in increasing order.
C25_RolloverOnlyOfFinishedWeek ==
    [][/\ lastOp'.op = "rollover" =>
             /\ showWeekSummary
             /\ todayISO(now) - state.weekStartISO >= 7
             /\ ~showWeekSummary'
             /\ state'.weekStartISO >= state.weekStartISO + 7
       /\ summaryShown' => todayISO(now') - state'.weekStartISO >= 7
       /\ \A k \in 1..(Len(state'.history) - 1) :
             state'.history[k + 1].startISO >= state'.history[k].startISO + 7]_vars

\* a second rollover has run, of a week begun 8 days after the first week
C25_Witness ==
    /\ lastOp.op = "rollover"
    /\ Len(state.history) = 2
    /\ state.history[2].startISO = state.history[1].startISO + 8
    /\ state.weekStartISO = state.history[2].startISO + 7
    /\ ~showWeekSummary

\* C26: no check-in mutation is applied to a Finished week: from the moment
\* the day offset reaches 7 until the rollover no goal's days change.
C26_NoMutationOfFinishedWeek ==
    [][(todayISO(now) - state.weekStartISO >= 7 /\ lastOp'.op # "rollover") =>
          state'.goals = state.goals]_vars

\* C27: toggleTask and setNote with a day index outside 0..6 change nothing:
\* no day is modified, added or removed, and no error is raised.
C27_DayOutOfRangeIsNoOp ==
    [][(lastOp'.op \in {"toggle", "note"} /\ "day" \in lastOp'.bad) =>
          /\ state' = state
          /\ \A i \in DOMAIN state'.goals :
                DOMAIN state'.goals[i].days = DOMAIN state.goals[i].days
          /\ app' = "running"]_vars

\* a note for day index 7 of an existing goal was set on a week with marks
C27_Witness ==
    /\ lastOp = Op("note", {"day"}, "")
    /\ Marks(state) > 0
    /\ app = "running"

\* C28: toggleTask applied twice with the same goalId, taskId and dayIndex
\* gives a state with the same set of completed tasks on every day, the
\* same notes, weekStartISO and history, hence the same totalBlocks,
\* completionPct, streakDays and isDormant; the order of the identifiers
\* within completedTasks may differ.
C28_ToggleTwiceRestores ==
    app = "running" =>
        \A goalId \in GoalArgs, taskId \in TaskArgs, dIndex \in 0..NUM_DAYS :
            LET once == handleToggleTask(state, goalId, taskId, dIndex)
                twice == handleToggleTask(once, goalId, taskId, dIndex)
            IN  /\ twice.weekStartISO = state.weekStartISO
                /\ twice.history = state.history
                /\ DOMAIN twice.goals = DOMAIN state.goals
                /\ \A i \in DOMAIN state.goals :
                      /\ DOMAIN twice.goals[i].days = DOMAIN state.goals[i].days
                      /\ \A d \in DOMAIN state.goals[i].days :
                            /\ Completed(twice, i, d) = Completed(state, i, d)
                            /\ twice.goals[i].days[d].note = state.goals[i].days[d].note
                      /\ totalBlocks(twice.goals[i]) = totalBlocks(state.goals[i])
                      /\ completionPct(twice.goals[i]) = completionPct(state.goals[i])
                      /\ streakDays(twice.goals[i]) = streakDays(state.goals[i])
                      /\ isDormant(twice.goals[i]) = isDormant(state.goals[i])

\* a day holds two completed tasks, and unticking and ticking the first of
\* them again leaves them in the other order
C28_Witness ==
    /\ app = "running"
    /\ lastOp.op = "toggle"
    /\ \E i \in DOMAIN state.goals :
          LET c == state.goals[i].days[NUM_DAYS].completedTasks
              twice == handleToggleTask(
                          handleToggleTask(state, state.goals[i].id, c[1], NUM_DAYS - 1),
                          state.goals[i].id, c[1], NUM_DAYS - 1)
          IN  /\ Len(c) = 2
              /\ twice.goals[i].days[NUM_DAYS].completedTasks = <<c[2], c[1]>>
              /\ twice # state

\* C29: after any sequence of commitCheckIn calls every track's logs list
\* is in ascending order and holds no date twice; commitCheckIn adds the
\* date to the named track only, changes nothing when the date is logged
\* already or when no track has the id, and applied a second time changes
\* nothing more.
C29_CommitCheckInSortedIdempotent ==
    /\ \A i \in DOMAIN tracks :
          \A a, b \in DOMAIN tracks[i].logs :
              a < b => tracks[i].logs[a] < tracks[i].logs[b]
    /\ \A id \in TrackArgs, isoDate \in Dates :
          LET next == commitCheckIn(tracks, id, isoDate)
          IN  /\ DOMAIN next = DOMAIN tracks
              /\ \A i \in DOMAIN tracks :
                    /\ tracks[i].id # id => next[i] = tracks[i]
                    /\ isoDate \in Range(tracks[i].logs) => next[i] = tracks[i]
                    /\ tracks[i].id = id =>
                          /\ Range(next[i].logs) = Range(tracks[i].logs) \cup {isoDate}
                          /\ [logs |-> <<>>] @@ next[i] = [logs |-> <<>>] @@ tracks[i]
                    /\ \A a, b \in DOMAIN next[i].logs :
                          a < b => next[i].logs[a] < next[i].logs[b]
              /\ id = NoTrack => next = tracks
              /\ commitCheckIn(next, id, isoDate) = next

\* a date already logged was committed again to a track that holds 3 dates,
\* the first day among them, while the other track holds a date too
C29_Witness ==
    /\ lastOp = Op("commit", {}, "logged")
    /\ Len(tracks[1].logs) = 3
    /\ tracks[1].logs[1] = 0
    /\ tracks[2].logs # <<>>
    /\ tracksStorage = saveTracks(tracks)

====
